---- MODULE Spec2Model ----
(***************************************************************************)
(* The attendance upload / reconciliation pipeline:                        *)
(*   Record Store      src/src/database/db_manager.py                      *)
(*   Session Client    src/src/api/api_client.py                           *)
(*   Upload Reconciler src/src/scheduler/api_uploader.py                   *)
(* upload_data() is modelled one step per blocking exchange (handshake,    *)
(* store read + export, one HTTP submission, one status poll); every step  *)
(* contains the store writes the code makes between two exchanges.  The    *)
(* collector thread, the records window and the configuration window act   *)
(* on the store between any two steps of a cycle.                          *)
(* Specifications:                                                         *)
(*   Spec       upload_data() cycles and the other threads' store writes   *)
(*   SpecFault  Spec with failing store operations                         *)
(*   SpecStore  the Record Store's operations with any arguments           *)
(*   SpecWindow SpecStore with the records and configuration windows       *)
(*   SpecSched  the scheduler threads and the shared job list              *)
(*   SpecConfig Spec with the configuration saved anew between cycles      *)
(***************************************************************************)
EXTENDS Integers, Sequences, FiniteSets, TLC

\* ------------------------------------------------------------------ bounds
\* distinct punch instants (seconds) that occur in a run
MaxInstants == 1
\* an upload cycle starts only while the audit log holds fewer entries
MaxLogs == 1
\* 401 answers the API gives to the submissions of one upload_attendance call
MaxUnauthorized == 2
\* pointings in one answer of the pointings endpoint
MaxPointings == 1

\* the Record Store on its own: distinct instants in the records handed to it,
\* uids the device assigns, records in one save_attendance_records call
MaxStoreInstants == 2
MaxDeviceUid == 2
MaxBatch == 2

\* connections left open by failed operations, up to which they are counted
MaxConnections == 2

\* ------------------------------------------------------- program constants
UidBase == 2000000
PollDeadlineSeconds == 30
PollSleepSeconds == 2

\* Python's None: in a slot that holds a string, and in one that holds an object
None == "None"
Null == [null |-> TRUE]

\* ------------------------------------------------------------- timestamps
\* A timestamp string 'YYYY-MM-DD?HH:MM:SS': its instant and the separator
\* between date and time, the only place a 'T' can stand.
Separators == {"T", " "}
Timestamps == [inst : 1..MaxInstants, sep : Separators]

\* ts.replace("T", " ")
ReplaceT(ts) == [ts EXCEPT !.sep = " "]

\* ------------------------------------------------------------ Record Store
VARIABLES
    config,              \* the config table: a sequence of rows [company_id, import_interval]
    attendance_records,  \* rows [uid, timestamp, processed]
    api_upload_logs      \* sequence of rows [status, response_data]

\* Upload Reconciler (one APIUploader) and its Session Client
VARIABLES
    api_client,          \* Null or the APIClient's tokens [xsrf_token, jwt_token]
    pc,                  \* position of upload_data()
    records,             \* upload_data: the rows read at line 89 (until they are submitted)
    export_info,         \* upload_data: Null or the export built at line 95
    response,            \* upload_data: Null or the result of upload_attendance
    unauthorized,        \* 401 answers seen by the running upload_attendance call
    elapsed,             \* seconds since end_time was computed at line 105, while
                         \* the loop of line 106 can still test it (0 otherwise)
    pointing_import,     \* upload_data: Null or the last polled job snapshot
    reconciled,          \* upload_data: the list returned by get_pointings_with_job_id
    exc,                 \* the exception text caught at line 164, or None
    raised,              \* upload_data() left by an exception
    cyc                  \* observations of the running cycle

\* the process around them
VARIABLES
    connections,         \* connections an operation of the store opened and left open
    sched                \* the scheduler threads and the shared job list

store == <<config, attendance_records, api_upload_logs>>
locals == <<records, export_info, response, unauthorized, elapsed,
            pointing_import, reconciled, exc, raised>>
vars == <<config, attendance_records, api_upload_logs, api_client, pc, records,
          export_info, response, unauthorized, elapsed, pointing_import,
          reconciled, exc, raised, cyc, connections, sched>>

\* --------------------------------------------------------- store operators
\* the punches the device holds: uid assigned by the device, strftime with a space
DeviceRecord(i) == [uid |-> i, timestamp |-> [inst |-> i, sep |-> " "]]

\* AttendanceRecord.uid is Optional: a record built without a uid
NoUid == 0

\* mutant: INSERT OR REPLACE, the rows in conflict give way to the new row
InsertOrIgnore_Replace(rows, r) ==
    IF r.uid = NoUid THEN rows
    ELSE {x \in rows : x.uid # r.uid /\ x.timestamp # r.timestamp}
             \cup {[uid |-> r.uid, timestamp |-> r.timestamp, processed |-> FALSE]}

\* INSERT OR IGNORE of one row: ignored when uid or timestamp is already stored
\* (both columns are UNIQUE) and when uid is NULL (the column is NOT NULL)
InsertOrIgnore(rows, r) ==
    IF r.uid = NoUid \/ \E x \in rows : x.uid = r.uid \/ x.timestamp = r.timestamp
    THEN rows
    ELSE rows \cup {[uid |-> r.uid, timestamp |-> r.timestamp, processed |-> FALSE]}

RECURSIVE SaveAttendanceRecords(_, _)
SaveAttendanceRecords(rows, recs) ==
    IF recs = <<>> THEN rows
    ELSE SaveAttendanceRecords(InsertOrIgnore(rows, Head(recs)), Tail(recs))

MaxUid(rows) == CHOOSE m \in {r.uid : r \in rows} : \A r \in rows : r.uid <= m

\* save_attendance_record: [ok, rows]; ok = FALSE when the call raises
\* (MAX(uid) of an empty table is None; the INSERT is not OR IGNORE)
SaveAttendanceRecord(rows, ts, processed) ==
    IF rows = {} THEN [ok |-> FALSE, rows |-> rows]
    ELSE LET max_uid == IF MaxUid(rows) > UidBase THEN MaxUid(rows) + 1 ELSE UidBase
         IN  IF \E x \in rows : x.uid = max_uid \/ x.timestamp = ts
             THEN [ok |-> FALSE, rows |-> rows]
             ELSE [ok |-> TRUE,
                   rows |-> rows \cup {[uid |-> max_uid, timestamp |-> ts,
                                        processed |-> processed]}]

\* mutant: an update that never clears the processed flag
UpdateAttendanceRecord_KeepsProcessed(rows, r, timestamp, processed) ==
    IF \E x \in rows \ {r} : x.timestamp = timestamp THEN rows
    ELSE (rows \ {r}) \cup {[r EXCEPT !.timestamp = timestamp,
                                      !.processed = r.processed \/ processed]}

\* update_attendance_record(attendance_record) for the stored row r (WHERE id = ?):
\* processed and timestamp are overwritten with the object's values; the UPDATE
\* raises on the UNIQUE timestamp column and the row is left as it is
UpdateAttendanceRecord(rows, r, timestamp, processed) ==
    IF \E x \in rows \ {r} : x.timestamp = timestamp THEN rows
    ELSE (rows \ {r}) \cup {[r EXCEPT !.timestamp = timestamp,
                                      !.processed = processed]}

\* get_attendance_records(filter_processed): the rows as AttendanceRecord objects
\* (filter_processed: None, "0" or "1")
GetAttendanceRecords(rows, filter_processed) ==
    IF filter_processed = None THEN rows
    ELSE {r \in rows : r.processed = (filter_processed = "1")}

Range(s) == {s[i] : i \in 1..Len(s)}

\* mutant: the timestamps are matched as they arrive, without replace("T", " ")
MarkRecordsProcessed_Unformatted(rows, timestamps) ==
    IF timestamps = <<>> THEN rows
    ELSE {IF r.timestamp \in Range(timestamps)
          THEN [r EXCEPT !.processed = TRUE] ELSE r : r \in rows}

\* the values of the records window's sort box
SortFields == {"timestamp", "username", "id", "punch_type"}

\* order_by texts, as the column they start with and what follows it: the sort
\* box is editable, so any text reaches get_attendance_records
OrderByTexts ==
    [column : SortFields \cup {"nosuchcolumn"}, rest : {"", " LIMIT 0 --"}]

\* get_attendance_records(filter_processed, order_by): [raises, rows]; the text
\* is put into the statement as it is ('ORDER BY {order_by} ASC'), so SQLite
\* raises for a name that is no column, and what follows the column is run as
\* part of the SELECT (a LIMIT 0 reads no row; the comment hides ' ASC')
GetAttendanceRecordsOrderBy(rows, filter_processed, order_by) ==
    IF order_by.column \notin SortFields
    THEN [raises |-> TRUE, rows |-> {}]
    ELSE [raises |-> FALSE,
          rows |-> IF order_by.rest = "" THEN GetAttendanceRecords(rows, filter_processed)
                   ELSE {}]

\* mutant: without the guard of line 258, an empty list marks every row
MarkRecordsProcessed_Unguarded(rows, timestamps) ==
    IF timestamps = <<>> THEN {[r EXCEPT !.processed = TRUE] : r \in rows}
    ELSE LET formatted_timestamps == {ReplaceT(ts) : ts \in Range(timestamps)}
         IN  {IF r.timestamp \in formatted_timestamps
              THEN [r EXCEPT !.processed = TRUE] ELSE r : r \in rows}

\* mutant: the matched rows are removed instead of marked
MarkRecordsProcessed_Deletes(rows, timestamps) ==
    IF timestamps = <<>> THEN rows
    ELSE LET formatted_timestamps == {ReplaceT(ts) : ts \in Range(timestamps)}
         IN  {r \in rows : r.timestamp \notin formatted_timestamps}

\* mark_records_processed(timestamps)
MarkRecordsProcessed(rows, timestamps) ==
    IF timestamps = <<>> THEN rows
    ELSE LET formatted_timestamps == {ReplaceT(ts) : ts \in Range(timestamps)}
         IN  {IF r.timestamp \in formatted_timestamps
              THEN [r EXCEPT !.processed = TRUE] ELSE r : r \in rows}

\* the empty string
EmptyString == [empty |-> TRUE]

\* Python truthiness of a payload or of an entrance/exit value
Truthy(x) == x \notin {Null, EmptyString}

\* mutant: the entry is inserted twice
LogApiUpload_Twice(logs, status, response_data) ==
    logs \o <<[status |-> status, response_data |-> response_data],
              [status |-> status, response_data |-> response_data]>>

\* log_api_upload(APIUploadLog(status, response_data))
LogApiUpload(logs, status, response_data) ==
    Append(logs, [status |-> status,
                  response_data |-> IF Truthy(response_data) THEN response_data ELSE Null])

\* ---------------------------------------------------------- Session Client
\* What the API does with the two requests of one authenticate() call:
\*   hello         GET /auth/hello: answered 200, answered otherwise, or the
\*                 request raises (network fault)
\*   cookie        the 200 answer to hello sets the XSRF-TOKEN cookie
\*   login         POST /auth/login, likewise
\*   access_token  the 200 answer to login carries an access_token
\* An answer that is not 200 carries nothing the code reads, and a request after
\* a failed hello is not sent: these fields then have one fixed value.
HelloAnswers == {"200", "500", "fault"}
LoginAnswers == {"200", "401", "fault"}
AuthOutcomes ==
    {o \in [hello : HelloAnswers, cookie : BOOLEAN,
            login : LoginAnswers, access_token : BOOLEAN] :
        /\ o.hello # "200" => ~o.cookie /\ o.login = "fault"
        /\ o.login # "200" => ~o.access_token}

\* APIClient(company_id=config.company_id, ...): the client keeps the values it
\* was built with (the credentials go with the company id)
APIClient(c) == [company_id |-> c.company_id, xsrf_token |-> None, jwt_token |-> None]

\* the client built from the configuration the configuration window saved
NewClient == APIClient([company_id |-> "company"])

\* line 31: 'XSRF-TOKEN' in self.session.cookies.  The session keeps its cookies
\* from one authenticate() to the next, and xsrf_token is stored from the cookie
\* whenever a hello found it: the jar holds the cookie if this hello sets it or
\* an earlier one did.
CookieInSession(client, o) == o.cookie \/ client.xsrf_token # None

\* mutant: a login answer without access_token still counts as authenticated
AuthOk_WithoutAccessToken(client, o) ==
    IF o.hello # "200" THEN FALSE
    ELSE IF ~CookieInSession(client, o) THEN FALSE
    ELSE IF o.login # "200" THEN FALSE
    ELSE TRUE

\* authenticate(): the value returned under outcome o
AuthOk(client, o) ==
    IF o.hello # "200" THEN FALSE
    ELSE IF ~CookieInSession(client, o) THEN FALSE
    ELSE IF o.login # "200" THEN FALSE
    ELSE IF o.access_token THEN TRUE
    ELSE FALSE

\* authenticate(): the client afterwards
Authenticate(client, o) ==
    IF o.hello # "200" THEN client
    ELSE IF ~CookieInSession(client, o) THEN client
    ELSE IF o.login # "200" THEN [client EXCEPT !.xsrf_token = "xsrf"]
    ELSE IF o.access_token
         THEN [client EXCEPT !.xsrf_token = "xsrf", !.jwt_token = "jwt"]
    ELSE [client EXCEPT !.xsrf_token = "xsrf"]

\* import jobs of the company at the API: J1 was created by an earlier upload,
\* J2 is the one the API creates for the submission of the running cycle
JobIds == {"J1", "J2"}
NewJobId == "J2"
ImportStatuses == {"COMPLETED", "STARTED", "STARTING", "FAILED", "STOPPED", "UNKNOWN", None}

\* raise_for_status() on an answer that is not 200: str(e) of the HTTPError
HttpErrors == {"401 Client Error: Unauthorized", "500 Server Error"}

\* mutant: a pointing contributes its entrance only
RECURSIVE TransformData_EntranceOnly(_)
TransformData_EntranceOnly(pointings) ==
    IF pointings = <<>> THEN <<>>
    ELSE LET p == Head(pointings)
         IN  (IF Truthy(p.entrance) THEN <<p.entrance>> ELSE <<>>)
             \o TransformData_EntranceOnly(Tail(pointings))

\* transform_data(pointings)
RECURSIVE TransformData(_)
TransformData(pointings) ==
    IF pointings = <<>> THEN <<>>
    ELSE LET p == Head(pointings)
         IN  (IF Truthy(p.entrance) THEN <<p.entrance>> ELSE <<>>)
             \o (IF Truthy(p.exit) THEN <<p.exit>> ELSE <<>>)
             \o TransformData(Tail(pointings))

\* the pointings of one answer: entrance and exit are timestamp strings or null,
\* and one answer writes all its timestamps with the same separator
Pointings(sep) ==
    LET stamps == {ts \in Timestamps : ts.sep = sep}
    IN  [entrance : stamps \cup {Null}, exit : stamps \cup {Null}]
PointingLists ==
    UNION {[1..n -> Pointings(sep)] : n \in 0..MaxPointings, sep \in Separators}


\* ------------------------------------------------------------------- Init
\* what a cycle has done so far: the outcome of its first authenticate(), whether
\* it built an export, its calls of upload_attendance, its HTTP submissions,
\* whether it polled, whether one of its steps changed a processed flag, and the
\* audit log's length at its start
NoCycle == [authFirst |-> None, exported |-> FALSE, uploads |-> 0, posts |-> 0,
            polled |-> FALSE, changed |-> FALSE, logBefore |-> 0]

\* the threads of start_collectors
SchedulerThreads == {"collector", "uploader", "user_importer"}

\* before start_collectors: no thread, no job in the shared list, no loop running;
\* previous holds the threads of the start_collectors before the last one
NoSched == [thread |-> [t \in SchedulerThreads |-> "none"],
            previous |-> [t \in SchedulerThreads |-> "none"],
            running |-> [t \in SchedulerThreads |-> FALSE],
            stopped |-> FALSE,
            job |-> "none",
            window |-> "idle"]

Init ==
    /\ config = <<>>
    /\ attendance_records = {}
    /\ api_upload_logs = <<>>
    /\ api_client = Null
    /\ pc = "idle"
    /\ records = {}
    /\ export_info = Null
    /\ response = Null
    /\ unauthorized = 0
    /\ elapsed = 0
    /\ pointing_import = Null
    /\ reconciled = <<>>
    /\ exc = None
    /\ raised = FALSE
    /\ cyc = NoCycle
    /\ connections = 0
    /\ sched = NoSched

\* ------------------------------------------------------- the config table
\* import_interval INTEGER NOT NULL DEFAULT 12
ImportIntervalDefault == 12

CompanyIds == {"company", "other"}

\* the fields of the Config dataclass (of those the model follows)
ConfigFields == {"company_id"}

\* Config objects: as ConfigInterface.get_config_dict builds them, from the
\* dataclass fields only, and with an import_interval attribute set on them
ConfigObjects ==
    [company_id : CompanyIds]
      \cup [company_id : CompanyIds, import_interval : {ImportIntervalDefault}]

\* save_config(config): [ok, rows]; reading config.import_interval raises on an
\* object without the attribute, before anything is written; otherwise the
\* first row is updated, or a row is inserted when there is none
SaveConfigRows(rows, c) ==
    IF "import_interval" \notin DOMAIN c THEN [ok |-> FALSE, rows |-> rows]
    ELSE LET row == [company_id |-> c.company_id, import_interval |-> c.import_interval]
         IN  [ok |-> TRUE,
              rows |-> IF rows # <<>> THEN [rows EXCEPT ![1] = row] ELSE <<row>>]

\* get_config(): [raises, config]; None without a row; with a row, Config(...) is
\* called with the keywords company_id, ..., import_interval, and raises
\* TypeError for a keyword that is no field of the dataclass
GetConfig(rows) ==
    IF rows = <<>> THEN [raises |-> FALSE, config |-> Null]
    ELSE IF DOMAIN rows[1] \subseteq ConfigFields
         THEN [raises |-> FALSE, config |-> rows[1]]
         ELSE [raises |-> TRUE, config |-> Null]

\* ------------------------------------------------- the other threads' steps
\* ConfigInterface: save_config
SaveConfig ==
    /\ pc # "done"
    /\ UNCHANGED <<connections, sched>>
    /\ config' = SaveConfigRows(config, [company_id |-> "company",
                                           import_interval |-> ImportIntervalDefault]).rows
    /\ UNCHANGED <<attendance_records, api_upload_logs, api_client, pc, cyc>>
    /\ UNCHANGED locals

RECURSIVE DeviceRecords(_)
DeviceRecords(n) == IF n = 0 THEN <<>> ELSE Append(DeviceRecords(n - 1), DeviceRecord(n))

\* AttendanceCollector.collect_attendance: the device holds its first n punches
CollectAttendance ==
    /\ pc # "done"
    /\ \E n \in 1..MaxInstants :
         attendance_records' = SaveAttendanceRecords(attendance_records, DeviceRecords(n))
    /\ UNCHANGED <<connections, sched>>
    /\ UNCHANGED <<config, api_upload_logs, api_client, pc, cyc>>
    /\ UNCHANGED locals

\* RecordsInterface.add_record: the form's timestamp text and processed choice
AddRecord ==
    /\ pc # "done"
    /\ \E ts \in Timestamps, processed \in BOOLEAN :
         attendance_records' = SaveAttendanceRecord(attendance_records, ts, processed).rows
    /\ UNCHANGED <<connections, sched>>
    /\ UNCHANGED <<config, api_upload_logs, api_client, pc, cyc>>
    /\ UNCHANGED locals

\* -------------------------------------------------------------- upload_data
ProcessedChanged(old, new) ==
    \E r \in old : \E q \in new :
        r.uid = q.uid /\ r.processed # q.processed

FirstAuth(o) == IF cyc.authFirst # None THEN cyc.authFirst
                ELSE IF AuthOk(api_client, o) THEN "ok" ELSE "failed"

\* c, with the change this step makes to the processed flags
Observed(c) ==
    [c EXCEPT !.changed = @ \/ ProcessedChanged(attendance_records, attendance_records')]

\* mutant: initialize() builds the client and authenticates without a config row
UploadData_Begin_WithoutConfig ==
    /\ pc = "idle"
    /\ Len(api_upload_logs) < MaxLogs
    /\ IF api_client = Null
       THEN \E o \in AuthOutcomes :
            /\ api_client' = Authenticate(NewClient, o)
            /\ pc' = IF AuthOk(NewClient, o) THEN "read" ELSE "done"
            /\ cyc' = [NoCycle EXCEPT !.logBefore = Len(api_upload_logs),
                                      !.authFirst = IF AuthOk(NewClient, o) THEN "ok" ELSE "failed"]
       ELSE /\ pc' = "read"
            /\ api_client' = api_client
            /\ cyc' = [NoCycle EXCEPT !.logBefore = Len(api_upload_logs)]
    /\ UNCHANGED <<connections, sched>>
    /\ UNCHANGED store
    /\ UNCHANGED locals

\* lines 81-86: the call, and initialize() when there is no client yet
UploadData_Begin ==
    /\ pc = "idle"
    /\ Len(api_upload_logs) < MaxLogs
    /\ IF api_client = Null
       THEN IF config = <<>>
            THEN /\ pc' = "done"
                 /\ api_client' = api_client
                 /\ cyc' = [NoCycle EXCEPT !.logBefore = Len(api_upload_logs)]
            ELSE \E o \in AuthOutcomes :
                 LET client == APIClient(config[1])
                 IN  /\ api_client' = Authenticate(client, o)
                     /\ pc' = IF AuthOk(client, o) THEN "read" ELSE "done"
                     /\ cyc' = [NoCycle EXCEPT
                                  !.logBefore = Len(api_upload_logs),
                                  !.authFirst = IF AuthOk(client, o) THEN "ok" ELSE "failed"]
       ELSE /\ pc' = "read"
            /\ api_client' = api_client
            /\ cyc' = [NoCycle EXCEPT !.logBefore = Len(api_upload_logs)]
    /\ UNCHANGED <<connections, sched>>
    /\ UNCHANGED store
    /\ UNCHANGED locals

\* create_excel_report(records) for a non-empty list
CreateExcelReport(recs) ==
    IF recs = {} THEN Null ELSE [file_path |-> "exports/attendance.xlsx"]

\* lines 88-97: read the store, build the export
UploadData_ReadExport ==
    /\ pc = "read"
    /\ records' = GetAttendanceRecords(attendance_records, None)
    /\ IF records' = {}
       THEN /\ pc' = "done"
            /\ UNCHANGED <<export_info, cyc>>
       ELSE /\ export_info' = CreateExcelReport(records')
            /\ cyc' = [cyc EXCEPT !.exported = export_info' # Null]
            /\ pc' = IF export_info' = Null THEN "done" ELSE "upload"
    /\ UNCHANGED <<api_client, response, unauthorized, elapsed, pointing_import,
                   reconciled, exc, raised>>
    /\ UNCHANGED <<connections, sched>>
    /\ UNCHANGED store

\* mutant: the handler of line 164 logs the exception as a FAILED upload
CatchAndLog_AsFailed(text, client, c) ==
    /\ UNCHANGED <<connections, sched>>
    /\ UNCHANGED <<config, attendance_records>>
    /\ exc' = text
    /\ api_upload_logs' = LogApiUpload(api_upload_logs, "FAILED", [text |-> text])
    /\ api_client' = client
    /\ cyc' = Observed(c)
    /\ pc' = "done"
    /\ elapsed' = 0
    /\ UNCHANGED <<records, export_info, response, unauthorized, reconciled, raised>>

\* lines 164-176: an exception of the try block is logged as ERROR with its text
CatchAndLog(text, client, c) ==
    /\ UNCHANGED <<connections, sched>>
    /\ UNCHANGED <<config, attendance_records>>
    /\ exc' = text
    /\ api_upload_logs' = LogApiUpload(api_upload_logs, "ERROR", [text |-> text])
    /\ api_client' = client
    /\ cyc' = Observed(c)
    /\ pc' = "done"
    /\ elapsed' = 0
    /\ UNCHANGED <<records, export_info, response, unauthorized, reconciled, raised>>

\* mutant: a failed submission is polled like a successful one
UploadReturned_PollsAnyway(result, client, c) ==
    /\ UNCHANGED <<connections, sched>>
    /\ UNCHANGED <<config, attendance_records>>
    /\ response' = result
    /\ api_client' = client
    /\ cyc' = Observed([c EXCEPT !.uploads = @ + 1])
    /\ pc' = "poll"
    /\ api_upload_logs' = api_upload_logs
    /\ records' = {}
    /\ elapsed' = 0
    /\ UNCHANGED <<export_info, unauthorized, pointing_import, reconciled, exc, raised>>

\* mutant: the result of the retried call is not handed back (no `return` at
\* api_client.py:187), the 401 pass falls through and returns no job id
UploadReturned_RetryDropsResult(result, client, c) ==
    /\ UNCHANGED <<connections, sched>>
    /\ UNCHANGED <<config, attendance_records>>
    /\ response' = IF unauthorized > 0 /\ result.success
                   THEN [success |-> TRUE, jobExecutionId |-> None] ELSE result
    /\ api_client' = client
    /\ cyc' = Observed([c EXCEPT !.uploads = @ + 1])
    /\ IF result.success
       THEN /\ pc' = "poll"
            /\ api_upload_logs' = api_upload_logs
       ELSE /\ pc' = "done"
            /\ api_upload_logs' = LogApiUpload(api_upload_logs, "FAILED", result)
    /\ records' = {}
    /\ elapsed' = 0
    /\ UNCHANGED <<export_info, unauthorized, pointing_import, reconciled, exc, raised>>

\* lines 103-105 and 150-162: upload_attendance has returned result
UploadReturned(result, client, c) ==
    /\ UNCHANGED <<connections, sched>>
    /\ UNCHANGED <<config, attendance_records>>
    /\ response' = result
    /\ api_client' = client
    /\ cyc' = Observed([c EXCEPT !.uploads = @ + 1])
    /\ IF result.success
       THEN /\ pc' = "poll"
            /\ api_upload_logs' = api_upload_logs
       ELSE /\ pc' = "done"
            /\ api_upload_logs' = LogApiUpload(api_upload_logs, "FAILED", result)
    /\ records' = {}
    /\ elapsed' = 0
    /\ UNCHANGED <<export_info, unauthorized, pointing_import, reconciled, exc, raised>>

\* api_client.py 182-187: a 401, authenticate() succeeded, upload_attendance runs again
UploadAgain(client, c) ==
    /\ UNCHANGED <<connections, sched>>
    /\ UNCHANGED <<config, attendance_records>>
    /\ unauthorized' = unauthorized + 1
    /\ api_client' = client
    /\ cyc' = Observed(c)
    /\ pc' = "upload"
    /\ UNCHANGED <<api_upload_logs, records, export_info, response, elapsed,
                   pointing_import, reconciled, exc, raised>>

\* mutant: a failure result without the message
Failure_WithoutMessage(message) == [success |-> FALSE]

\* {'success': False, 'message': message}
Failure(message) == [success |-> FALSE, message |-> message]

\* line 101: one pass through upload_attendance (api_client.py 152-197)
UploadData_Upload ==
    /\ pc = "upload"
    /\ \/ UploadReturned(Failure("File not found"), api_client, cyc)
       \/ \E o \in AuthOutcomes :
            LET client == Authenticate(api_client, o)
                c1 == [cyc EXCEPT !.authFirst = FirstAuth(o)]
                c2 == [c1 EXCEPT !.posts = @ + 1]
            IN  IF ~AuthOk(api_client, o)
                THEN UploadReturned(Failure("Authentication required"), client, c1)
                ELSE \/ UploadReturned([success |-> TRUE, jobExecutionId |-> NewJobId],
                                       client, c2)
                     \/ UploadReturned(Failure("API Error"), client, c2)
                     \/ UploadReturned(Failure("ConnectionError"), client, c2)
                     \/ /\ unauthorized < MaxUnauthorized
                        /\ \E o2 \in AuthOutcomes :
                             IF AuthOk(client, o2)
                             THEN UploadAgain(Authenticate(client, o2), c2)
                             ELSE UploadReturned(Failure("Re-authentication failed"),
                                                 Authenticate(client, o2), c2)

Min(a, b) == IF a < b THEN a ELSE b

\* lines 109-111: the poll answered COMPLETED
ImportCompleted(snapshot, client, c) ==
    /\ UNCHANGED <<connections, sched>>
    /\ UNCHANGED <<config, attendance_records>>
    /\ pointing_import' = snapshot
    /\ pc' = "fetch"
    /\ elapsed' = 0
    /\ api_client' = client
    /\ cyc' = Observed(c)
    /\ UNCHANGED <<api_upload_logs, records, export_info, response, unauthorized,
                   reconciled, exc, raised>>

\* mutant: a pending poll that takes no time and does not sleep
ImportPending_WithoutSleep(snapshot, d, client, c) ==
    /\ UNCHANGED <<connections, sched>>
    /\ UNCHANGED <<config, attendance_records>>
    /\ pointing_import' = snapshot
    /\ elapsed' = elapsed
    /\ pc' = "poll"
    /\ api_client' = client
    /\ cyc' = Observed(c)
    /\ UNCHANGED <<api_upload_logs, records, export_info, response, unauthorized,
                   reconciled, exc, raised>>

\* lines 116-118: STARTED or STARTING; the request took d seconds, then sleep(2)
ImportPending(snapshot, d, client, c) ==
    /\ UNCHANGED <<connections, sched>>
    /\ UNCHANGED <<config, attendance_records>>
    /\ pointing_import' = snapshot
    /\ elapsed' = Min(PollDeadlineSeconds, elapsed + d + PollSleepSeconds)
    /\ pc' = "poll"
    /\ api_client' = client
    /\ cyc' = Observed(c)
    /\ UNCHANGED <<api_upload_logs, records, export_info, response, unauthorized,
                   reconciled, exc, raised>>

\* mutant: the FAILED entry carries the submission response, not the snapshot
ImportFailed_LogsResponse(snapshot, client, c) ==
    /\ UNCHANGED <<connections, sched>>
    /\ UNCHANGED <<config, attendance_records>>
    /\ pointing_import' = snapshot
    /\ api_upload_logs' = LogApiUpload(api_upload_logs, "FAILED", response)
    /\ pc' = "done"
    /\ elapsed' = 0
    /\ api_client' = client
    /\ cyc' = Observed(c)
    /\ UNCHANGED <<records, export_info, response, unauthorized, reconciled, exc, raised>>

\* lines 119-131: FAILED or STOPPED
ImportFailed(snapshot, client, c) ==
    /\ UNCHANGED <<connections, sched>>
    /\ UNCHANGED <<config, attendance_records>>
    /\ pointing_import' = snapshot
    /\ api_upload_logs' = LogApiUpload(api_upload_logs, "FAILED", snapshot)
    /\ pc' = "done"
    /\ elapsed' = 0
    /\ api_client' = client
    /\ cyc' = Observed(c)
    /\ UNCHANGED <<records, export_info, response, unauthorized, reconciled, exc, raised>>

\* lines 106-133: the loop test holds; one get_pointing_import and its branch.
\* d: the seconds the request took (requests are sent without a timeout)
UploadData_Poll ==
    /\ pc = "poll"
    /\ elapsed < PollDeadlineSeconds
    /\ \E o \in AuthOutcomes :
         LET client == Authenticate(api_client, o)
             c1 == [cyc EXCEPT !.authFirst = FirstAuth(o)]
             c2 == [c1 EXCEPT !.polled = TRUE]
         IN  IF ~AuthOk(api_client, o)
             THEN CatchAndLog("Authentication required", client, c1)
                  /\ UNCHANGED pointing_import
             ELSE \/ \E e \in HttpErrors :
                       CatchAndLog(e, client, c1) /\ UNCHANGED pointing_import
                  \/ \E s \in ImportStatuses, j \in JobIds :
                       LET snapshot == [status |-> s, jobExecutionId |-> j]
                       IN  CASE s = "COMPLETED" -> ImportCompleted(snapshot, client, c2)
                             [] s \in {"STARTED", "STARTING"} ->
                                  \E d \in {0, PollDeadlineSeconds} :
                                      ImportPending(snapshot, d, client, c2)
                             [] s \in {"FAILED", "STOPPED"} ->
                                  ImportFailed(snapshot, client, c2)
                             [] OTHER ->
                                  /\ pointing_import' = snapshot
                                  /\ CatchAndLog("Pointing Import with unknown status",
                                                 client, c2)

\* lines 113-115: the reconciled events are marked, and upload_data returns
Reconcile(events, client, c) ==
    /\ reconciled' = events
    /\ attendance_records' =
           IF Len(events) > 0
           THEN MarkRecordsProcessed(attendance_records, events)
           ELSE attendance_records
    /\ cyc' = Observed(c)
    /\ api_client' = client
    /\ pc' = "done"
    /\ UNCHANGED <<connections, sched>>
    /\ UNCHANGED <<config, api_upload_logs, records, export_info, response,
                   unauthorized, elapsed, pointing_import, exc, raised>>

\* line 112: get_pointings_with_job_id(pointing_import['jobExecutionId'])
UploadData_Fetch ==
    /\ pc = "fetch"
    /\ \E o \in AuthOutcomes :
         LET client == Authenticate(api_client, o)
             c1 == [cyc EXCEPT !.authFirst = FirstAuth(o)]
         IN  IF ~AuthOk(api_client, o)
             THEN CatchAndLog("Authentication required", client, c1)
                  /\ UNCHANGED pointing_import
             ELSE \/ \E e \in HttpErrors :
                       CatchAndLog(e, client, c1) /\ UNCHANGED pointing_import
                  \/ \E pointings \in PointingLists :
                       Reconcile(TransformData(pointings), client, c1)

\* mutant: the batch is marked processed when the loop ends (the call that line
\* 136 keeps as a comment), whatever was polled
UploadData_Deadline_MarksAll ==
    /\ pc = "poll"
    /\ elapsed >= PollDeadlineSeconds
    /\ UNCHANGED <<connections, sched>>
    /\ config' = config
    /\ attendance_records' = {[r EXCEPT !.processed = TRUE] : r \in attendance_records}
    /\ api_upload_logs' = LogApiUpload(api_upload_logs, "SUCCESS", response)
    /\ pc' = "done"
    /\ cyc' = Observed(cyc)
    /\ UNCHANGED api_client
    /\ UNCHANGED locals

\* line 106 fails: the deadline has passed; lines 139-149
UploadData_Deadline ==
    /\ pc = "poll"
    /\ elapsed >= PollDeadlineSeconds
    /\ UNCHANGED <<connections, sched>>
    /\ UNCHANGED <<config, attendance_records>>
    /\ api_upload_logs' = LogApiUpload(api_upload_logs, "SUCCESS", response)
    /\ pc' = "done"
    /\ cyc' = Observed(cyc)
    /\ UNCHANGED api_client
    /\ UNCHANGED locals

\* control is back at the caller; the call's locals are gone
UploadData_Return ==
    /\ pc = "done"
    /\ pc' = "idle"
    /\ records' = {}
    /\ export_info' = Null
    /\ response' = Null
    /\ unauthorized' = 0
    /\ elapsed' = 0
    /\ pointing_import' = Null
    /\ reconciled' = <<>>
    /\ exc' = None
    /\ raised' = FALSE
    /\ cyc' = NoCycle
    /\ UNCHANGED <<connections, sched>>
    /\ UNCHANGED <<config, attendance_records, api_upload_logs, api_client>>

Next ==
    \/ SaveConfig
    \/ CollectAttendance
    \/ AddRecord
    \/ UploadData_Begin
    \/ UploadData_ReadExport
    \/ UploadData_Upload
    \/ UploadData_Poll
    \/ UploadData_Fetch
    \/ UploadData_Deadline
    \/ UploadData_Return

Spec == Init /\ [][Next]_vars

\* ------------------------------------------------------------ storage faults
\* line 89: get_attendance_records raises (sqlite3 error); the call is outside
\* the try block of line 100. get_attendance_records has no try/finally: the
\* connection of line 221 is not closed when execute raises
UploadData_ReadFault ==
    /\ pc = "read"
    /\ raised' = TRUE
    /\ pc' = "done"
    /\ UNCHANGED <<api_client, records, export_info, response, unauthorized, elapsed,
                   pointing_import, reconciled, exc, cyc>>
    /\ connections < MaxConnections
    /\ connections' = connections + 1
    /\ UNCHANGED sched
    /\ UNCHANGED store

\* lines 152 and 166: upload_attendance reported a failure, log_api_upload raises
\* inside the try block, and raises again inside the handler of line 164; each
\* of the two calls leaves the connection of line 279 open
UploadData_AuditFault ==
    /\ pc = "upload"
    /\ response' = Failure("File not found")
    /\ exc' = "sqlite3.OperationalError"
    /\ raised' = TRUE
    /\ pc' = "done"
    /\ records' = {}
    /\ cyc' = [cyc EXCEPT !.uploads = @ + 1]
    /\ UNCHANGED <<api_client, export_info, unauthorized, elapsed, pointing_import,
                   reconciled>>
    /\ connections < MaxConnections
    /\ connections' = Min(MaxConnections, connections + 2)
    /\ UNCHANGED sched
    /\ UNCHANGED store

NextFault ==
    \/ Next
    \/ UploadData_ReadFault
    \/ UploadData_AuditFault

SpecFault == Init /\ [][NextFault]_vars

\* ------------------------------------------------- the Record Store alone
\* The operations of the Record Store called with any arguments, the uploader
\* not running.
StoreTimestamps == [inst : 1..MaxStoreInstants, sep : Separators]

\* lists of AttendanceRecord objects: any uid of the device or none, a timestamp
\* as strftime('%Y-%m-%d %H:%M:%S') writes it
StoreRecords == [uid : (1..MaxDeviceUid) \cup {NoUid},
                 timestamp : {ts \in StoreTimestamps : ts.sep = " "}]
StoreRecordLists == UNION {[1..n -> StoreRecords] : n \in 0..MaxBatch}

Store_SaveAttendanceRecords ==
    /\ pc = "idle"
    /\ \E recs \in StoreRecordLists :
         attendance_records' = SaveAttendanceRecords(attendance_records, recs)
    /\ UNCHANGED <<connections, sched>>
    /\ UNCHANGED <<config, api_upload_logs, api_client, pc, cyc>>
    /\ UNCHANGED locals

Store_SaveAttendanceRecord ==
    /\ pc = "idle"
    /\ \E ts \in StoreTimestamps, processed \in BOOLEAN :
         attendance_records' = SaveAttendanceRecord(attendance_records, ts, processed).rows
    /\ UNCHANGED <<connections, sched>>
    /\ UNCHANGED <<config, api_upload_logs, api_client, pc, cyc>>
    /\ UNCHANGED locals

\* lists of timestamp strings, as the API's pointings carry them
StoreTimestampLists == UNION {[1..n -> StoreTimestamps] : n \in 0..MaxBatch}

Store_MarkRecordsProcessed ==
    /\ pc = "idle"
    /\ \E timestamps \in StoreTimestampLists :
         attendance_records' = MarkRecordsProcessed(attendance_records, timestamps)
    /\ UNCHANGED <<connections, sched>>
    /\ UNCHANGED <<config, api_upload_logs, api_client, pc, cyc>>
    /\ UNCHANGED locals

NextStore ==
    \/ Store_SaveAttendanceRecords
    \/ Store_SaveAttendanceRecord
    \/ Store_MarkRecordsProcessed
    \/ SaveConfig

SpecStore == Init /\ [][NextStore]_vars

(***************************************************************************)
(* The scheduler threads.  start_collectors starts three threads; each runs *)
(* the start_scheduler of its object, which loops on schedule.run_pending() *)
(* of the one job list of the schedule module.  Only the uploader's job is  *)
(* followed; an upload_data() run is its start and its end, by return or by *)
(* an exception (lines 83-89 and 164-174 are outside any handler).          *)
(***************************************************************************)
Generations == {"thread", "previous"}

SetThread(g, t, st) == [sched EXCEPT ![g][t] = st]

\* main.py: start_collectors, for the first time or after stop_collectors (the
\* Start button is enabled again); three new threads are started whatever the
\* threads of the start before are doing
StartCollectors ==
    /\ \A t \in SchedulerThreads : sched.previous[t] = "none"
    /\ \/ \A t \in SchedulerThreads : sched.thread[t] = "none"
       \/ sched.stopped
    /\ sched' = [sched EXCEPT !.previous = sched.thread,
                              !.thread = [t \in SchedulerThreads |-> "started"],
                              !.stopped = FALSE]
    /\ UNCHANGED <<store, locals, api_client, pc, cyc, connections>>

\* start_scheduler up to its loop: lines 180-188
StartScheduler(t) ==
    /\ sched.thread[t] = "started"
    /\ sched' = IF sched.running[t]
                THEN SetThread("thread", t, "returned")
                ELSE [sched EXCEPT !.thread[t] = "loop",
                                   !.running[t] = TRUE,
                                   !.job = IF t = "uploader" THEN "waiting" ELSE @]
    /\ UNCHANGED <<store, locals, api_client, pc, cyc, connections>>

\* the interval of the job has passed
JobDue ==
    /\ sched.job = "waiting"
    /\ sched' = [sched EXCEPT !.job = "due"]
    /\ UNCHANGED <<store, locals, api_client, pc, cyc, connections>>

\* line 191: run_pending() finds the job due and calls upload_data(); the job
\* stays due until the call has returned
RunPending(g, t) ==
    /\ sched[g][t] = "loop"
    /\ sched.running[t]
    /\ sched.job = "due"
    /\ sched' = SetThread(g, t, "upload")
    /\ UNCHANGED <<store, locals, api_client, pc, cyc, connections>>

\* upload_data() returns to run_pending(), which sets the job's next run
UploadReturns(g, t) ==
    /\ sched[g][t] = "upload"
    /\ sched' = [sched EXCEPT ![g][t] = "loop",
                              !.job = IF @ = "none" THEN "none" ELSE "waiting"]
    /\ UNCHANGED <<store, locals, api_client, pc, cyc, connections>>

\* upload_data() raises: nothing between it and the thread's target catches, so
\* run_pending() and start_scheduler() are left and the thread ends
UploadRaises(g, t) ==
    /\ sched[g][t] = "upload"
    /\ sched' = SetThread(g, t, "ended")
    /\ UNCHANGED <<store, locals, api_client, pc, cyc, connections>>

\* line 190: the loop's test finds running false
LoopExit(g, t) ==
    /\ sched[g][t] = "loop"
    /\ ~sched.running[t]
    /\ sched' = SetThread(g, t, "returned")
    /\ UNCHANGED <<store, locals, api_client, pc, cyc, connections>>

\* main.py: stop_collectors: every stop_scheduler clears the flag of its object
\* and the job list
StopCollectors ==
    /\ \E t \in SchedulerThreads : sched.running[t]
    /\ sched' = [sched EXCEPT !.running = [t \in SchedulerThreads |-> FALSE],
                              !.stopped = TRUE,
                              !.job = "none"]
    /\ UNCHANGED <<store, locals, api_client, pc, cyc, connections>>

\* the records window: synchronize_records calls upload_data() on the UI thread
SynchronizeRecords ==
    /\ sched.window = "idle"
    /\ sched' = [sched EXCEPT !.window = "upload"]
    /\ UNCHANGED <<store, locals, api_client, pc, cyc, connections>>

\* its upload_data() returns or raises into the handler of line 521
SynchronizeEnds ==
    /\ sched.window = "upload"
    /\ sched' = [sched EXCEPT !.window = "idle"]
    /\ UNCHANGED <<store, locals, api_client, pc, cyc, connections>>

NextSched ==
    \/ StartCollectors
    \/ \E t \in SchedulerThreads : StartScheduler(t)
    \/ JobDue
    \/ \E g \in Generations, t \in SchedulerThreads : RunPending(g, t)
    \/ \E g \in Generations, t \in SchedulerThreads : UploadReturns(g, t)
    \/ \E g \in Generations, t \in SchedulerThreads : UploadRaises(g, t)
    \/ \E g \in Generations, t \in SchedulerThreads : LoopExit(g, t)
    \/ StopCollectors
    \/ SynchronizeRecords
    \/ SynchronizeEnds

SpecSched == Init /\ [][NextSched]_vars

(***************************************************************************)
(* The store with the edits of the records window added.                   *)
(***************************************************************************)
\* the records window: toggle_processed_status(processed) and the Update Record
\* form, both ending in update_attendance_record on a row shown in the list
Store_UpdateAttendanceRecord ==
    /\ pc = "idle"
    /\ \E r \in attendance_records, ts \in StoreTimestamps, processed \in BOOLEAN :
         attendance_records' = UpdateAttendanceRecord(attendance_records, r, ts, processed)
    /\ UNCHANGED <<connections, sched>>
    /\ UNCHANGED <<config, api_upload_logs, api_client, pc, cyc>>
    /\ UNCHANGED locals

\* the configuration window: save_config with any Config object
Store_SaveConfig ==
    /\ pc = "idle"
    /\ UNCHANGED <<connections, sched>>
    /\ \E c \in ConfigObjects : config' = SaveConfigRows(config, c).rows
    /\ UNCHANGED <<attendance_records, api_upload_logs, api_client, pc, cyc>>
    /\ UNCHANGED locals

NextWindow ==
    \/ Store_SaveAttendanceRecords
    \/ Store_SaveAttendanceRecord
    \/ Store_MarkRecordsProcessed
    \/ Store_UpdateAttendanceRecord
    \/ Store_SaveConfig

SpecWindow == Init /\ [][NextWindow]_vars

(***************************************************************************)
(* The upload cycles with the configuration saved anew between them.       *)
(***************************************************************************)
NextConfig ==
    \/ Next
    \/ Store_SaveConfig

SpecConfig == Init /\ [][NextConfig]_vars

\* ------------------------------------------------------------------ claims
\* the state of the uploader and of the call of upload_data() it is running
UploaderState == <<api_client, pc, records, export_info, response, unauthorized,
                   elapsed, pointing_import, reconciled, exc, raised, cyc>>

LastLog == api_upload_logs[Len(api_upload_logs)]
LoggedOnce == Len(api_upload_logs) = cyc.logBefore + 1
LoggedNothing == Len(api_upload_logs) = cyc.logBefore
Submitted == response # Null /\ response.success
Polled(statuses) == pointing_import # Null /\ pointing_import.status \in statuses

\* C1: a step of upload_data() changes the processed flag of a record only when a
\* status poll of the same cycle has returned COMPLETED (the step that marks the
\* reconciled events); no step of any other path changes a processed flag.
C1_ProcessedOnlyAfterCompleted ==
    [][(UploaderState' # UploaderState
          /\ ProcessedChanged(attendance_records, attendance_records'))
       => (pc = "fetch" /\ Polled({"COMPLETED"}))]_vars

C1_Witness == pc = "done" /\ cyc.changed /\ Polled({"COMPLETED"})

\* C2: when the submission succeeded and a poll returned COMPLETED, the cycle ends
\* with exactly one new audit entry, of status SUCCESS.
C2_SuccessAuditOnCompleted ==
    (pc = "done" /\ Submitted /\ Polled({"COMPLETED"}) /\ exc = None)
    => (LoggedOnce /\ LastLog.status = "SUCCESS")

\* C3: when the deadline passes and every polled status was STARTED or STARTING,
\* the cycle ends without a new audit entry.
C3_NoAuditOnDeadline ==
    (pc = "done" /\ Submitted /\ exc = None
       /\ (pointing_import = Null \/ Polled({"STARTED", "STARTING"})))
    => LoggedNothing

\* C4: the batch read for the export is exactly the set of rows whose processed
\* flag is false in the store at the time of the read.
C4_BatchIsUnprocessed ==
    [][(pc = "read" /\ pc' # "read")
       => records' = {r \in attendance_records : ~r.processed}]_vars

\* C5: upload_data() never leaves by an exception.
C5_NeverRaises == ~raised

\* C6: a cycle whose handshake failed builds no export, submits nothing and writes
\* no audit entry.
C6_NothingAfterFailedHandshake ==
    (pc = "done" /\ cyc.authFirst = "failed")
    => (~cyc.exported /\ cyc.posts = 0 /\ LoggedNothing)

\* C7 as stated: the step that marks the reconciled events sets the flag of
\* exactly the stored rows whose timestamp equals an event timestamp, and these
\* are as many rows as the list has events.
C7_MarkedEqualEvents ==
    [][(pc = "fetch" /\ pc' = "done" /\ exc' = None)
       => LET hit == {r \in attendance_records : r.timestamp \in Range(reconciled')}
          IN  /\ attendance_records' =
                    {IF r \in hit THEN [r EXCEPT !.processed = TRUE] ELSE r :
                       r \in attendance_records}
              /\ Cardinality(hit) = Len(reconciled')]_vars

\* C7 amended: the step that marks the reconciled events sets the flag of exactly
\* the stored rows whose timestamp equals an event timestamp in which 'T' is
\* replaced by a space; these are at most as many rows as the list has events.
C7_MarkedFormattedEvents ==
    [][(pc = "fetch" /\ pc' = "done" /\ exc' = None)
       => LET formatted == {[inst |-> reconciled'[i].inst, sep |-> " "] :
                              i \in 1..Len(reconciled')}
              hit == {r \in attendance_records : r.timestamp \in formatted}
          IN  /\ attendance_records' =
                    {IF r \in hit THEN [r EXCEPT !.processed = TRUE] ELSE r :
                       r \in attendance_records}
              /\ Cardinality(hit) <= Len(reconciled')]_vars

\* a cycle has marked the row stored with a space for a 'T' event, the list held
\* more events than rows were marked, and a row stored with a 'T' stayed unmarked
C7_Witness ==
    /\ pc = "done" /\ Len(reconciled) = 2 /\ cyc.changed
    /\ \E r \in attendance_records : r.timestamp.sep = "T" /\ ~r.processed
    /\ \E i \in 1..Len(reconciled) : reconciled[i].sep = "T"

\* C8: when upload_attendance returns a failure, the cycle ends with exactly one
\* new audit entry, FAILED with the response as payload, after one call of
\* upload_attendance, no status poll and no change of a processed flag.
C8_FailedAuditOnSubmissionFailure ==
    (pc = "done" /\ response # Null /\ ~response.success)
    => /\ LoggedOnce
       /\ LastLog = [status |-> "FAILED", response_data |-> response]
       /\ cyc.uploads = 1
       /\ ~cyc.polled /\ pointing_import = Null
       /\ ~cyc.changed

C8_Witness ==
    /\ pc = "done" /\ response # Null /\ ~response.success
    /\ cyc.posts = 2 /\ LastLog.status = "FAILED"

\* C9: when a poll returns FAILED or STOPPED, the cycle ends there with exactly one
\* new audit entry, FAILED with the polled snapshot as payload, and no change of a
\* processed flag.
C9_FailedAuditOnImportFailure ==
    (pc # "idle" /\ Polled({"FAILED", "STOPPED"}))
    => /\ pc = "done"
       /\ LoggedOnce
       /\ LastLog = [status |-> "FAILED", response_data |-> pointing_import]
       /\ ~cyc.changed

C9_Witness == pc = "done" /\ Polled({"STOPPED"}) /\ LastLog.status = "FAILED"

\* C10: when, after a successful submission, a poll returns an unrecognized or
\* missing status or the status fetch raises, the cycle ends with exactly one new
\* audit entry, ERROR with the exception text as payload, and no change of a
\* processed flag.
C10_ErrorAuditOnPollException ==
    (pc = "done" /\ Submitted
       /\ (exc # None \/ Polled({"UNKNOWN", None}))
       /\ ~Polled({"COMPLETED"}))
    => /\ exc # None
       /\ LoggedOnce
       /\ LastLog = [status |-> "ERROR", response_data |-> [text |-> exc]]
       /\ ~cyc.changed

C10_Witness ==
    /\ pc = "done" /\ Polled({None})
    /\ exc = "Pointing Import with unknown status" /\ LastLog.status = "ERROR"

\* C11: a cycle that called upload_attendance ends with exactly one new audit
\* entry, and no cycle ends with more than one.
C11_OneAuditPerSubmittingCycle ==
    pc = "done"
    => /\ Len(api_upload_logs) <= cyc.logBefore + 1
       /\ cyc.uploads > 0 => LoggedOnce

\* C12: when the store read by upload_data() holds no unprocessed record, the
\* call returns at the read: nothing is exported or submitted, and the store
\* (records, configuration, audit log) stays as it is.
C12_NothingWithoutUnprocessed ==
    [][(pc = "read" /\ pc' # "read" /\ \A r \in attendance_records : r.processed)
       => (pc' = "done" /\ UNCHANGED store)]_vars

C14_AtMostOneRetry == unauthorized <= 1 /\ cyc.posts <= 2

\* C15: when upload_attendance returns after a 200 answer, its result is
\* {success: true, jobExecutionId: J} with J the job id of that answer, the same
\* after a 401 and a successful re-authentication as on the first attempt.
C15_RetryIsTransparent ==
    [][(pc = "upload" /\ pc' = "poll")
       => response' = [success |-> TRUE, jobExecutionId |-> NewJobId]]_vars

C15_Witness ==
    /\ pc = "poll" /\ unauthorized = 1 /\ cyc.posts = 2
    /\ response = [success |-> TRUE, jobExecutionId |-> NewJobId]

\* C16: an unauthorized answer to a Session Client call is followed by
\* authenticate() and one retry of the call, so the answer itself never reaches
\* the caller as the failure of the call.
C16_UnauthorizedIsRetried == exc # "401 Client Error: Unauthorized"

\* the client authenticate() runs on: the uploader's, or a new one
Client == IF api_client = Null THEN NewClient ELSE api_client

C18_UploadAlwaysReturnsResult ==
    [][(pc = "upload" /\ pc' # "upload")
       => /\ ~raised' /\ exc' = None
          /\ response' # Null
          /\ IF response'.success
             THEN /\ response' = [success |-> TRUE, jobExecutionId |-> NewJobId]
                  /\ cyc'.posts = cyc.posts + 1
             ELSE /\ DOMAIN response' = {"success", "message"}
                  /\ response'.message \in
                        {"File not found", "Authentication required", "API Error",
                         "ConnectionError", "Re-authentication failed"}]_vars

\* the POST raised a network fault and upload_attendance returned a failure
C18_Witness ==
    /\ pc = "done" /\ response = [success |-> FALSE, message |-> "ConnectionError"]
    /\ cyc.posts = 1 /\ ~raised

\* C19: no two stored records have the same timestamp, and a call of
\* save_attendance_records leaves every stored row as it is (its processed flag
\* included), whatever timestamps the call brings, so a timestamp brought twice
\* is stored once.
C19_TimestampUniqueInsertIdempotent ==
    /\ \A r, q \in attendance_records : r.timestamp = q.timestamp => r = q
    /\ \A recs \in StoreRecordLists :
          LET after == SaveAttendanceRecords(attendance_records, recs)
          IN  /\ attendance_records \subseteq after
              /\ \A r, q \in after : r.timestamp = q.timestamp => r = q

\* the store holds a processed row with a timestamp the device can bring again
C19_Witness ==
    \E r \in attendance_records :
        /\ r.processed /\ r.timestamp.sep = " "
        /\ <<[uid |-> 1, timestamp |-> r.timestamp]>> \in StoreRecordLists
        /\ \A x \in attendance_records : x.uid # 1

\* C20: records with pairwise distinct timestamps, none of them stored, are all
\* stored by save_attendance_records, whatever their uids: get_attendance_records
\* afterwards returns the rows stored before and one row per record.
C20_DistinctTimestampsAllStored ==
    \A recs \in StoreRecordLists :
        LET stamps == {recs[i].timestamp : i \in 1..Len(recs)}
            after == GetAttendanceRecords(
                         SaveAttendanceRecords(attendance_records, recs), None)
        IN  (/\ Cardinality(stamps) = Len(recs)
             /\ \A r \in attendance_records : r.timestamp \notin stamps)
            => /\ attendance_records \subseteq after
               /\ {r.timestamp : r \in after \ attendance_records} = stamps
               /\ Cardinality(after) = Cardinality(attendance_records) + Len(recs)

\* C21: for every stored record, mark_records_processed with its timestamp sets
\* the processed flag of that record and leaves every other record, and every
\* other field, as it is.
C21_MarkStoredTimestamp ==
    \A r \in attendance_records :
        MarkRecordsProcessed(attendance_records, <<r.timestamp>>)
          = {IF x = r THEN [x EXCEPT !.processed = TRUE] ELSE x : x \in attendance_records}

\* C22: mark_records_processed([]) leaves the records as they are, and so does
\* mark_records_processed(ts) when no timestamp of ts matches a stored record
\* (the timestamps of ts are brought to the form with a space before matching).
C22_NoFormattedMatchNoChange ==
    \A timestamps \in StoreTimestampLists :
        (\A r \in attendance_records :
            \A i \in 1..Len(timestamps) :
                r.timestamp # [inst |-> timestamps[i].inst, sep |-> " "])
        => MarkRecordsProcessed(attendance_records, timestamps) = attendance_records

\* an unprocessed row is stored and some timestamp matches no row
C22_Witness ==
    /\ \E r \in attendance_records : ~r.processed
    /\ \E ts \in StoreTimestamps :
          \A r \in attendance_records : r.timestamp.inst # ts.inst

\* C23: the processed flag is monotonic: in every step of the store's
\* operations a row that is processed stays processed (rows are followed by uid,
\* which no operation rewrites).
C23_ProcessedMonotonic ==
    [][\A r \in attendance_records : r.processed =>
          \A x \in attendance_records' : x.uid = r.uid => x.processed]_vars

\* C24: save_attendance_record with a timestamp not yet stored succeeds in every
\* store, and the row it adds has a uid of at least 2,000,000 that no stored row
\* has, the maximum uid plus one once a local uid is stored.
C24_LocalUidFresh ==
    \A ts \in StoreTimestamps :
        (\A r \in attendance_records : r.timestamp # ts)
        => LET res == SaveAttendanceRecord(attendance_records, ts, FALSE)
               added == res.rows \ attendance_records
           IN  /\ res.ok
               /\ Cardinality(added) = 1
               /\ \A a \in added :
                     /\ a.timestamp = ts
                     /\ a.uid >= UidBase
                     /\ \A r \in attendance_records : r.uid # a.uid
                     /\ (\E r \in attendance_records : r.uid >= UidBase)
                           => a.uid = MaxUid(attendance_records) + 1

\* C25: for every order_by text outside the sort fields, get_attendance_records
\* is rejected or reads the rows it reads when ordered by a sort field.
C25_OrderByOutsideSetIsInert ==
    \A order_by \in OrderByTexts, filter_processed \in {None, "0", "1"} :
        ~(order_by.column \in SortFields /\ order_by.rest = "")
        => LET res == GetAttendanceRecordsOrderBy(attendance_records,
                                                  filter_processed, order_by)
           IN  res.raises
                 \/ res.rows = GetAttendanceRecords(attendance_records, filter_processed)

\* C26: the config table holds at most one row, exactly one once a save_config
\* was made; save_config succeeds for every Config object, those the
\* configuration window builds included; get_config() does not raise, returns
\* None for an empty table and otherwise a Config with the values of the row,
\* which are those of the last save_config.
C26_ConfigSavedAndReadBack ==
    /\ Len(config) <= 1
    /\ \A c \in ConfigObjects :
          LET saved == SaveConfigRows(config, c)
          IN  /\ saved.ok
              /\ Len(saved.rows) = 1
              /\ ~GetConfig(saved.rows).raises
              /\ GetConfig(saved.rows).config.company_id = c.company_id
    /\ ~GetConfig(config).raises
    /\ config = <<>> => GetConfig(config).config = Null

\* C27: no operation of the store leaves the connection it opened open, also
\* when it raises: after any sequence of operations no such connection is open.
C27_NoConnectionLeftOpen == connections = 0

\* upload_data() runs in progress, in the scheduler threads and the window
Uploading ==
    Cardinality({t \in SchedulerThreads : sched.thread[t] = "upload"})
      + Cardinality({t \in SchedulerThreads : sched.previous[t] = "upload"})
      + (IF sched.window = "upload" THEN 1 ELSE 0)

\* C28: at any moment at most one upload_data() cycle is executing.
C28_AtMostOneCycle == Uploading <= 1

\* C29: while the uploader has not been stopped, the thread of its scheduler
\* loop has not ended, whatever the cycles it ran ended with.
C29_LoopSurvivesFailedCycle ==
    sched.running["uploader"] => sched.thread["uploader"] # "ended"

\* C30: while a cycle waits for the import, the time counted from the
\* submission stays within the deadline and the cycle always has a next step;
\* every poll answered STARTED or STARTING advances the time by the sleep at
\* least, so the polls of a cycle are at most PollDeadlineSeconds /
\* PollSleepSeconds and the cycle leaves the loop; once the deadline is reached
\* no poll is made and the only step is the one that ends the cycle.
C30_PollingBounded ==
    /\ [](elapsed \in 0..PollDeadlineSeconds)
    /\ [](pc = "poll" => ENABLED (UploadData_Poll \/ UploadData_Deadline))
    /\ [][(pc = "poll" /\ UploaderState' # UploaderState)
          => IF elapsed >= PollDeadlineSeconds
             THEN /\ pc' = "done"
                  /\ pointing_import' = pointing_import
                  /\ api_client' = api_client
             ELSE pc' = "poll" => elapsed' >= elapsed + PollSleepSeconds]_vars

\* a cycle ended at the deadline, its last poll still answered STARTED or STARTING
C30_Witness ==
    /\ pc = "done"
    /\ elapsed >= PollDeadlineSeconds
    /\ Polled({"STARTED", "STARTING"})
    /\ LoggedOnce

\* the entrance and exit values of a list of pointings, in pointing order, each
\* entrance before the exit of its pointing
EntrancesAndExits(pointings) ==
    [i \in 1..(2 * Len(pointings)) |->
        IF i % 2 = 1 THEN pointings[(i + 1) \div 2].entrance
        ELSE pointings[i \div 2].exit]

\* a timestamp string, neither null nor empty
NonEmpty(x) == x \in Timestamps

\* lists of pointings with any entrance and exit: a timestamp string, the empty
\* string or null
AnyPointingLists ==
    LET values == Timestamps \cup {Null, EmptyString}
    IN  UNION {[1..n -> [entrance : values, exit : values]] : n \in 0..(MaxPointings + 1)}

\* transform_data on every such list
TransformDataFlattens ==
    \A pointings \in AnyPointingLists :
        TransformData(pointings) = SelectSeq(EntrancesAndExits(pointings), NonEmpty)

C32_StoppedLoopStartsNoCycle ==
    [][\A t \in SchedulerThreads :
          sched.previous[t] = "loop" => sched'.previous[t] # "upload"]_vars

\* C33: the job execution id a cycle fetches the reconciled events with (the
\* one of line 111) is the id its own upload_attendance returned, at the fetch
\* and when records have been marked.
C33_FetchUsesOwnJob ==
    (pc = "fetch" \/ (pc = "done" /\ cyc.changed))
    => pointing_import.jobExecutionId = response.jobExecutionId

\* the stored records without their processed flag
RecordFields(rows) == {[uid |-> r.uid, timestamp |-> r.timestamp] : r \in rows}

\* C34: no step of upload_data() inserts or deletes a record or changes a field
\* of a record other than processed: the records, their processed flags left
\* aside, are the same after the step as before it, and as many.
C34_UploadKeepsRecords ==
    [][UploaderState' # UploaderState
       => /\ RecordFields(attendance_records') = RecordFields(attendance_records)
          /\ Cardinality(attendance_records') = Cardinality(attendance_records)]_vars

\* a cycle marked a record and left another one unprocessed
C34_Witness ==
    /\ pc = "done" /\ cyc.changed
    /\ \E r \in attendance_records : r.processed
    /\ \E r \in attendance_records : ~r.processed

\* audit logs of up to two entries, and log_api_upload on each of them
AuditLogs ==
    LET entries == [status : {"SUCCESS", "FAILED", "ERROR"},
                    response_data : {Null, Failure("File not found")}]
    IN  UNION {[1..n -> entries] : n \in 0..2}

LogApiUploadAppends ==
    \A logs \in AuditLogs, status \in {"SUCCESS", "FAILED", "ERROR"},
       response_data \in {Null, EmptyString, Failure("File not found")} :
        LET after == LogApiUpload(logs, status, response_data)
        IN  /\ Len(after) = Len(logs) + 1
            /\ SubSeq(after, 1, Len(logs)) = logs
            /\ after[Len(after)].status = status

C36_CycleUsesStoredConfig ==
    [][(pc = "idle" /\ pc' # "idle" /\ config # <<>> /\ api_client' # Null)
       => api_client'.company_id = config[1].company_id]_vars

\* C37: a call of authenticate() that returns false leaves the tokens of the
\* client, whatever they are, as they were.
C37_FailedAuthKeepsTokens ==
    \A o \in AuthOutcomes :
        ~AuthOk(Client, o)
        => /\ Authenticate(Client, o).xsrf_token = Client.xsrf_token
           /\ Authenticate(Client, o).jwt_token = Client.jwt_token

TypeOK ==
    /\ pc \in {"idle", "read", "upload", "poll", "fetch", "done"}
    /\ elapsed \in 0..PollDeadlineSeconds
    /\ Len(api_upload_logs) <= MaxLogs
    /\ Len(config) <= 1
    /\ connections \in 0..MaxConnections
    /\ sched.thread \in [SchedulerThreads ->
                            {"none", "started", "loop", "upload", "ended", "returned"}]
    /\ sched.previous \in [SchedulerThreads ->
                            {"none", "started", "loop", "upload", "ended", "returned"}]
    /\ sched.running \in [SchedulerThreads -> BOOLEAN]
    /\ sched.stopped \in BOOLEAN
    /\ sched.job \in {"none", "waiting", "due"}
    /\ sched.window \in {"idle", "upload"}
====
